---------------------------- MODULE Spec2Model ----------------------------
(* Squaredle solver (src/script.js): the dictionary load (init), the word  *)
(* search (findWords / dfs) and the solve button handler (solve).          *)
(*                                                                         *)
(* A JavaScript string is modelled as a sequence of one-character strings, *)
(* a Set of strings as a set of such sequences, a Map as a sequence of     *)
(* entries in insertion order.                                             *)
EXTENDS Integers, Sequences, FiniteSets, TLC

VARIABLES
    \* src/script.js:14-16, module state
    dictionary, prefixDictionary, dictionaryLoaded,
    \* init(): position of the async function and its local `text`
    initPc, text, reads,
    \* the page: body.classList has 'solved', button.textContent,
    \* #gridInput.value, #visualGrid, #solutions
    solved, buttonLabel, gridInput, visualGrid, solutions,
    \* what the last click did, and the first result seen per input
    lastClick, firstResult,
    \* findWords(grid): its argument, its locals and its call stack
    grid, words, stack, cell, result, pc, discovered

vars == <<dictionary, prefixDictionary, dictionaryLoaded, initPc, text, reads,
          solved, buttonLabel, gridInput, visualGrid, solutions,
          lastClick, firstResult,
          grid, words, stack, cell, result, pc, discovered>>

lexVars == <<dictionary, prefixDictionary, dictionaryLoaded>>
pageVars == <<solved, buttonLabel, gridInput, visualGrid, solutions,
              lastClick, firstResult>>
searchVars == <<grid, words, stack, cell, result, pc, discovered>>
loadVars == <<initPc, text, reads>>
outsideSearch == <<lexVars, loadVars, pageVars>>

---------------------------------------------------------------------------
(* Bounds                                                                  *)

MaxTextLen == 7
MaxChunks == 2
MaxRows == 2
MaxCells == 3

---------------------------------------------------------------------------
(* Characters and strings                                                  *)

Letters == {"a", "b", "A", "B"}
Space == " "
Newline == "\n"

\* String.prototype.toLowerCase, one character
LowerChar(c) ==
    CASE c = "A" -> "a"
      [] c = "B" -> "b"
      [] OTHER -> c

\* String.prototype.toUpperCase, one character
UpperChar(c) ==
    CASE c = "a" -> "A"
      [] c = "b" -> "B"
      [] OTHER -> c

toLowerCase(s) == [i \in 1..Len(s) |-> LowerChar(s[i])]
toUpperCase(s) == [i \in 1..Len(s) |-> UpperChar(s[i])]

IsWhite(c) == c = Space \/ c = Newline

RECURSIVE TrimStart(_)
TrimStart(s) ==
    IF s # <<>> /\ IsWhite(Head(s)) THEN TrimStart(Tail(s)) ELSE s

RECURSIVE TrimEnd(_)
TrimEnd(s) ==
    IF s # <<>> /\ IsWhite(s[Len(s)]) THEN TrimEnd(SubSeq(s, 1, Len(s) - 1))
    ELSE s

\* String.prototype.trim
trim(s) == TrimEnd(TrimStart(s))

\* String.prototype.split('\n'): the pieces between the separators, at
\* least one piece
RECURSIVE SplitFrom(_, _, _)
SplitFrom(s, i, cur) ==
    IF i > Len(s) THEN <<cur>>
    ELSE IF s[i] = Newline THEN <<cur>> \o SplitFrom(s, i + 1, <<>>)
    ELSE SplitFrom(s, i + 1, Append(cur, s[i]))

split(s) == SplitFrom(s, 1, <<>>)

---------------------------------------------------------------------------
(* init(): building the two dictionaries                                   *)

\* the proper prefixes only
ProperPrefixesAdded(word) == {SubSeq(word, 1, k) : k \in 1..(Len(word) - 1)}

\* the loop of lines 44-48 for one word: every prefix added on the way
PrefixesAdded(word) == {SubSeq(word, 1, k) : k \in 1..Len(word)}

\* the forEach callback, lines 36-50, applied to lines[i..]; lex is the
\* pair of sets built so far
RECURSIVE ForEachLine(_, _, _)
ForEachLine(lns, i, lex) ==
    IF i > Len(lns) THEN lex
    ELSE LET word == toLowerCase(trim(lns[i]))
         IN  IF word # <<>>
             THEN ForEachLine(lns, i + 1,
                      [dictionary |-> lex.dictionary \cup {word},
                       prefixDictionary |->
                           lex.prefixDictionary \cup PrefixesAdded(word)])
             ELSE ForEachLine(lns, i + 1, lex)

\* lines 36-50 on the decoded text, starting from the sets of lines 14-15
BuildDictionaries(t) ==
    ForEachLine(split(t), 1, [dictionary |-> {}, prefixDictionary |-> {}])

---------------------------------------------------------------------------
(* findWords(grid): arrays, the Map and the comparator                     *)

Undefined == "undefined"

\* grid[x] is an array: x is an index of grid
HasRow(g, x) == x \in 0..(Len(g) - 1)

\* grid[x][y] is a cell: y is an index of the row grid[x]
HasCell(g, x, y) == HasRow(g, x) /\ y \in 0..(Len(g[x + 1]) - 1)

\* grid[x][y], undefined beyond the row's length
CellAt(g, x, y) == IF HasCell(g, x, y) THEN g[x + 1][y + 1] ELSE Undefined

\* char.trim() is truthy: the cell holds something other than whitespace
IsUsable(c) == trim(<<c>>) # <<>>

\* lines 97-101
directions ==
    << <<-1, -1>>, <<-1, 0>>, <<-1, 1>>,
       <<0, -1>>,             <<0, 1>>,
       <<1, -1>>,  <<1, 0>>,  <<1, 1>> >>

\* the template `${x},${y}` of lines 135, 140 and 151: decimal digits
\* around a comma, so two keys are equal exactly when the pairs are
CoordKey(x, y) == <<x, y>>

\* line 131-133, in the code's order: true when the neighbour is outside
\* the grid, so that grid[nx][ny] is never read there
OutOfBoundsNoRowLength(g, nx, ny) ==
    nx < 0 \/ ny < 0 \/ nx >= Len(g)

OutOfBounds(g, nx, ny) ==
    nx < 0 \/ ny < 0 \/ nx >= Len(g) \/ ny >= Len(g[nx + 1])

\* pruning on the word set instead of the prefix set
IsPrefixWordsOnly(normalized) == normalized \in dictionary

\* prefixDictionary.has(normalized), line 115
IsPrefix(normalized) == normalized \in prefixDictionary

\* every prefix taken for a word
IsWordAlways(normalized) == TRUE

\* dictionary.has(normalized), line 118
IsWord(normalized) == normalized \in dictionary

\* a Map some earlier call left behind
StaleMap == words

\* new Map(), line 94
NewMap == <<>>

\* the variant of Map.prototype.set that keeps a key's first value
MapSetKeepFirst(m, key, path) ==
    IF \E i \in DOMAIN m : m[i].key = key THEN m
    ELSE Append(m, [key |-> key, path |-> path])

\* Map.prototype.set, line 119: a key already present keeps its place in
\* the insertion order and takes the new value
MapSet(m, key, path) ==
    IF \E i \in DOMAIN m : m[i].key = key
    THEN [i \in DOMAIN m |->
             IF m[i].key = key THEN [key |-> key, path |-> path] ELSE m[i]]
    ELSE Append(m, [key |-> key, path |-> path])

\* collation weights of a letter: at level 1 its rank in the alphabet
\* whatever its case, at level 3 its case, lower case before upper case
Weight(level, c) ==
    IF level = 1 THEN (IF LowerChar(c) = "a" THEN 1 ELSE 2)
    ELSE (IF c = LowerChar(c) THEN 1 ELSE 2)

\* first index where the weights of a and b differ, 0 if none up to the
\* shorter length
RECURSIVE FirstDiff(_, _, _, _)
FirstDiff(level, a, b, i) ==
    IF i > Len(a) \/ i > Len(b) THEN 0
    ELSE IF Weight(level, a[i]) # Weight(level, b[i]) THEN i
    ELSE FirstDiff(level, a, b, i + 1)

WeightCompare(level, a, b) ==
    LET i == FirstDiff(level, a, b, 1)
    IN  IF i # 0
        THEN (IF Weight(level, a[i]) < Weight(level, b[i]) THEN -1 ELSE 1)
        ELSE IF Len(a) < Len(b) THEN -1
        ELSE IF Len(a) > Len(b) THEN 1
        ELSE 0

\* String.prototype.localeCompare on letter strings (default collation):
\* alphabetical order ignoring case decides; only for strings equal up to
\* case does the first case difference decide, lower case first
localeCompare(a, b) ==
    LET p == WeightCompare(1, a, b)
    IN  IF p # 0 THEN p ELSE WeightCompare(3, a, b)

\* a comparator that forgets the length
CompareNoLength(a, b) == localeCompare(a.key, b.key)

\* the comparator of line 158
Compare(a, b) ==
    IF Len(a.key) - Len(b.key) # 0 THEN Len(a.key) - Len(b.key)
    ELSE localeCompare(a.key, b.key)

\* Array.prototype.sort: stable, by insertion
RECURSIVE InsertSorted(_, _)
InsertSorted(sorted, e) ==
    IF sorted = <<>> THEN <<e>>
    ELSE IF Compare(sorted[Len(sorted)], e) <= 0 THEN Append(sorted, e)
    ELSE Append(InsertSorted(SubSeq(sorted, 1, Len(sorted) - 1), e),
                sorted[Len(sorted)])

RECURSIVE SortFrom(_, _, _)
SortFrom(entries, i, sorted) ==
    IF i > Len(entries) THEN sorted
    ELSE SortFrom(entries, i + 1, InsertSorted(sorted, entries[i]))

\* lines 157-158: Array.from(words.entries()).sort(...)
SortEntries(m) == SortFrom(m, 1, <<>>)

\* the cells of the two forEach loops of lines 148-154, in their order
RECURSIVE CellsFrom(_, _, _)
CellsFrom(g, i, j) ==
    IF i >= Len(g) THEN <<>>
    ELSE IF j >= Len(g[i + 1]) THEN CellsFrom(g, i + 1, 0)
    ELSE <<[x |-> i, y |-> j]>> \o CellsFrom(g, i, j + 1)

CellsInOrder(g) == CellsFrom(g, 0, 0)

---------------------------------------------------------------------------
(* findWords(grid), step by step: one frame of `stack` per dfs call in     *)
(* progress; d is 0 at the call's entry, k while direction k of the loop   *)
(* of line 123 is being handled                                            *)

Top == stack[Len(stack)]
Pop(st) == SubSeq(st, 1, Len(st) - 1)

Frame(x, y, path, currentWord, visited) ==
    [x |-> x, y |-> y, path |-> path, currentWord |-> currentWord,
     visited |-> visited, d |-> 0]

\* the caller resumes its loop with the next direction, or, when the call
\* came from the forEach of line 151, the loops move to the next cell
ReturnFrom(st) ==
    IF Len(st) = 1 THEN <<>>
    ELSE [Pop(st) EXCEPT ![Len(st) - 1].d = @ + 1]

\* line 94 and the start of the loops of line 148
FindWordsCall ==
    /\ pc = "call"
    /\ words' = NewMap
    /\ stack' = <<>>
    /\ cell' = 1
    /\ pc' = "cells"
    /\ UNCHANGED <<grid, result, discovered>>
    /\ UNCHANGED outsideSearch

\* lines 149-152, a cell whose char.trim() is falsy
SkipCell ==
    /\ pc = "cells" /\ stack = <<>>
    /\ cell <= Len(CellsInOrder(grid))
    /\ LET c == CellsInOrder(grid)[cell]
       IN  ~IsUsable(CellAt(grid, c.x, c.y))
    /\ cell' = cell + 1
    /\ UNCHANGED <<grid, words, stack, result, pc, discovered>>
    /\ UNCHANGED outsideSearch

\* lines 150-151, the dfs call on a usable cell
StartDfs ==
    /\ pc = "cells" /\ stack = <<>>
    /\ cell <= Len(CellsInOrder(grid))
    /\ LET c == CellsInOrder(grid)[cell]
           char == CellAt(grid, c.x, c.y)
       IN  /\ IsUsable(char)
           /\ stack' = <<Frame(c.x, c.y, <<[x |-> c.x, y |-> c.y]>>,
                               <<char>>, {CoordKey(c.x, c.y)})>>
    /\ UNCHANGED <<grid, words, cell, result, pc, discovered>>
    /\ UNCHANGED outsideSearch

\* lines 112-115, the early exit
DfsPrune ==
    /\ pc = "cells" /\ stack # <<>> /\ Top.d = 0
    /\ LET normalized == toLowerCase(Top.currentWord)
       IN  ~IsPrefix(normalized)
    /\ stack' = ReturnFrom(stack)
    /\ cell' = IF Len(stack) = 1 THEN cell + 1 ELSE cell
    /\ UNCHANGED <<grid, words, result, pc, discovered>>
    /\ UNCHANGED outsideSearch

\* lines 112-120 when the prefix is known
DfsEnter ==
    /\ pc = "cells" /\ stack # <<>> /\ Top.d = 0
    /\ LET normalized == toLowerCase(Top.currentWord)
       IN  /\ IsPrefix(normalized)
           /\ IF IsWord(normalized)
              THEN /\ words' = MapSet(words, Top.currentWord, Top.path)
                   /\ discovered' =
                          Append(discovered, [key |-> Top.currentWord,
                                              path |-> Top.path])
              ELSE UNCHANGED <<words, discovered>>
    /\ stack' = [stack EXCEPT ![Len(stack)].d = 1]
    /\ UNCHANGED <<grid, cell, result, pc>>
    /\ UNCHANGED outsideSearch

\* the skip without the visited test
SkippedNoVisited(g, f, k) ==
    LET nx == f.x + directions[k][1]
        ny == f.y + directions[k][2]
    IN  IF OutOfBounds(g, nx, ny) THEN TRUE
        ELSE /\ CellAt(g, nx, ny) # Undefined
             /\ ~IsUsable(CellAt(g, nx, ny))

\* lines 124-135 for direction k of the call `f`: the `continue`
Skipped(g, f, k) ==
    LET nx == f.x + directions[k][1]
        ny == f.y + directions[k][2]
    IN  IF OutOfBounds(g, nx, ny) THEN TRUE
        ELSE /\ CellAt(g, nx, ny) # Undefined
             /\ (~IsUsable(CellAt(g, nx, ny))
                 \/ CoordKey(nx, ny) \in f.visited)

\* the loop of line 123 from direction k on: the first direction that is
\* not skipped, Len(directions) + 1 when the loop runs out
RECURSIVE NextOpen(_, _, _)
NextOpen(g, f, k) ==
    IF k > Len(directions) THEN k
    ELSE IF Skipped(g, f, k) THEN NextOpen(g, f, k + 1)
    ELSE k

\* lines 123-143: the loop runs on to its next recursive call; reading
\* .trim() of a cell the row does not have throws a TypeError
DfsRecurse ==
    /\ pc = "cells" /\ stack # <<>> /\ Top.d >= 1
    /\ LET k == NextOpen(grid, Top, Top.d)
       IN  /\ k <= Len(directions)
           /\ LET nx == Top.x + directions[k][1]
                  ny == Top.y + directions[k][2]
                  newPath == Append(Top.path, [x |-> nx, y |-> ny])
                  newVisited == Top.visited \cup {CoordKey(nx, ny)}
              IN  IF CellAt(grid, nx, ny) = Undefined
                  THEN /\ pc' = "TypeError"
                       /\ UNCHANGED stack
                  ELSE /\ stack' =
                              Append([stack EXCEPT ![Len(stack)].d = k],
                                  Frame(nx, ny, newPath,
                                        Append(Top.currentWord,
                                               CellAt(grid, nx, ny)),
                                        newVisited))
                       /\ UNCHANGED pc
    /\ UNCHANGED <<grid, words, cell, result, discovered>>
    /\ UNCHANGED outsideSearch

\* lines 123-145: the loop runs out and the call returns
DfsReturn ==
    /\ pc = "cells" /\ stack # <<>> /\ Top.d >= 1
    /\ NextOpen(grid, Top, Top.d) > Len(directions)
    /\ stack' = ReturnFrom(stack)
    /\ cell' = IF Len(stack) = 1 THEN cell + 1 ELSE cell
    /\ UNCHANGED <<grid, words, result, pc, discovered>>
    /\ UNCHANGED outsideSearch

\* lines 157-158 once every cell has been a start
FindWordsReturn ==
    /\ pc = "cells" /\ stack = <<>>
    /\ cell > Len(CellsInOrder(grid))
    /\ result' = SortEntries(words)
    /\ pc' = "done"
    /\ UNCHANGED <<grid, words, stack, cell, discovered>>
    /\ UNCHANGED outsideSearch

---------------------------------------------------------------------------
(* findWords(grid) as one synchronous call                                 *)

\* dfs (lines 111-145) and its loop from direction k on; the value is the
\* Map after the call, and whether a read threw
RECURSIVE dfs(_, _, _, _, _, _, _), dfsLoop(_, _, _, _, _, _, _, _)
dfs(g, x, y, path, currentWord, visited, ws) ==
    LET normalized == toLowerCase(currentWord)
    IN  IF ~IsPrefix(normalized) THEN ws
        ELSE dfsLoop(g, x, y, path, currentWord, visited, 1,
                 IF IsWord(normalized)
                 THEN [ws EXCEPT !.map = MapSet(ws.map, currentWord, path)]
                 ELSE ws)

dfsLoop(g, x, y, path, currentWord, visited, k, ws) ==
    IF ws.threw \/ k > Len(directions) THEN ws
    ELSE LET nx == x + directions[k][1]
             ny == y + directions[k][2]
         IN  IF Skipped(g, [x |-> x, y |-> y, visited |-> visited], k)
             THEN dfsLoop(g, x, y, path, currentWord, visited, k + 1, ws)
             ELSE IF CellAt(g, nx, ny) = Undefined
             THEN [ws EXCEPT !.threw = TRUE]
             ELSE dfsLoop(g, x, y, path, currentWord, visited, k + 1,
                      dfs(g, nx, ny, Append(path, [x |-> nx, y |-> ny]),
                          Append(currentWord, CellAt(g, nx, ny)),
                          visited \cup {CoordKey(nx, ny)}, ws))

\* the loops of lines 148-154 from the n-th cell on
RECURSIVE forEachCell(_, _, _)
forEachCell(g, n, ws) ==
    IF ws.threw \/ n > Len(CellsInOrder(g)) THEN ws
    ELSE LET c == CellsInOrder(g)[n]
             char == CellAt(g, c.x, c.y)
         IN  forEachCell(g, n + 1,
                 IF IsUsable(char)
                 THEN dfs(g, c.x, c.y, <<[x |-> c.x, y |-> c.y]>>, <<char>>,
                          {CoordKey(c.x, c.y)}, ws)
                 ELSE ws)

\* lines 93-159: the Map when the loops end, and the array returned
findWords(g) ==
    LET ws == forEachCell(g, 1, [map |-> NewMap, threw |-> FALSE])
    IN  [threw |-> ws.threw, words |-> ws.map,
         result |-> IF ws.threw THEN <<>> ELSE SortEntries(ws.map)]

---------------------------------------------------------------------------
(* The page: init() and the clicks on the button                           *)

\* pieces of the decompressed words.txt as reader.read() may deliver them
Chunks ==
    { <<"a", Newline>>,
      <<"a", "B">>,
      <<Space, "A", Space, Newline, "b">>,
      <<"a", Newline, Newline, "B", "a", "a">> }

\* new TextDecoder().decode(value), line 32, on bytes that are ASCII: one
\* character per byte
decode(value) == value

\* what the user may have typed into #gridInput
GridTexts ==
    { <<>>,
      <<"a", "b", Newline, "A">>,
      <<"a", Space, "a">>,
      <<"b", "a", Newline, Space, "a">> }

NoResult == [seen |-> FALSE, result |-> <<>>]

\* lines 84-87
parseGrid(value) == split(toUpperCase(value))

\* lines 209-224: one .grid-cell per cell with a character, in order
RECURSIVE renderCells(_, _)
renderCells(g, n) ==
    IF n > Len(CellsInOrder(g)) THEN <<>>
    ELSE LET c == CellsInOrder(g)[n]
         IN  (IF IsUsable(CellAt(g, c.x, c.y))
              THEN <<[x |-> c.x, y |-> c.y,
                      textContent |-> CellAt(g, c.x, c.y)]>>
              ELSE <<>>) \o renderCells(g, n + 1)

\* lines 191-228, the children of #visualGrid after the call
renderGrid(g) == renderCells(g, 1)

\* lines 166-171 and 175: the groups by length, integer keys ascending,
\* each with its words in the order of `results`
displayResults(results) ==
    LET lengths == {Len(results[i].key) : i \in DOMAIN results}
        group(n) == SelectSeq(results, LAMBDA e : Len(e.key) = n)
        RECURSIVE groupsFrom(_)
        groupsFrom(n) ==
            IF \A m \in lengths : m < n THEN <<>>
            ELSE (IF n \in lengths
                  THEN <<[length |-> n, words |-> group(n)]>>
                  ELSE <<>>) \o groupsFrom(n + 1)
    IN  groupsFrom(1)

\* no readiness test
ReadyAlways == TRUE

\* the test of line 69
Ready == dictionaryLoaded

\* lines 14-16 and the call of init() up to its first await, line 23
ScriptInit ==
    /\ dictionary = {}
    /\ prefixDictionary = {}
    /\ dictionaryLoaded = FALSE
    /\ initPc = "fetch"
    /\ text = <<>>
    /\ reads = 0

\* findWords has not been called
SearchIdle ==
    /\ grid = <<>>
    /\ words = <<>>
    /\ stack = <<>>
    /\ cell = 1
    /\ result = <<>>
    /\ discovered = <<>>
    /\ pc = "idle"

\* the page as loaded: no 'solved' class, the button reads Solve, the
\* textarea and the two containers are empty
PageIdle ==
    /\ solved = FALSE
    /\ buttonLabel = "Solve"
    /\ gridInput = <<>>
    /\ visualGrid = <<>>
    /\ solutions = <<>>
    /\ lastClick = "none"
    /\ firstResult = [t \in GridTexts |-> NoResult]

Init == ScriptInit /\ PageIdle /\ SearchIdle

\* line 23: fetch resolves, lines 24-27 run up to the first read
FetchResolved ==
    /\ initPc = "fetch"
    /\ initPc' = "read"
    /\ text' = <<>>
    /\ UNCHANGED <<reads, lexVars, pageVars, searchVars>>

\* line 23: fetch rejects and init() ends with the rejection
FetchRejected ==
    /\ initPc = "fetch"
    /\ initPc' = "failed"
    /\ UNCHANGED <<text, reads, lexVars, pageVars, searchVars>>

\* lines 30-32: a read delivers a chunk
ReadChunk ==
    /\ initPc = "read"
    /\ reads < MaxChunks
    /\ \E value \in Chunks : text' = text \o decode(value)
    /\ reads' = reads + 1
    /\ UNCHANGED <<initPc, lexVars, pageVars, searchVars>>

\* line 30: the stream fails (no gzip data, a broken transfer) and init()
\* ends with the rejection
ReadRejected ==
    /\ initPc = "read"
    /\ initPc' = "failed"
    /\ UNCHANGED <<text, reads, lexVars, pageVars, searchVars>>

\* lines 30-31 and 36-52: the last read reports done; the dictionaries are
\* built and the flag is set before init() gives up control
ReadDone ==
    /\ initPc = "read"
    /\ dictionary' = dictionary \cup BuildDictionaries(text).dictionary
    /\ prefixDictionary' =
           prefixDictionary \cup BuildDictionaries(text).prefixDictionary
    /\ dictionaryLoaded' = TRUE
    /\ initPc' = "done"
    /\ UNCHANGED <<text, reads, pageVars, searchVars>>

\* the user types a grid; the textarea is hidden while the page is
\* solved (lines 418-420)
EditInput ==
    /\ ~solved
    /\ \E value \in GridTexts : gridInput' = value
    /\ gridInput' # gridInput
    /\ UNCHANGED <<solved, buttonLabel, visualGrid, solutions, lastClick,
                   firstResult>>
    /\ UNCHANGED <<lexVars, loadVars, searchVars>>

\* the reset without its `return`: solve() goes on with the emptied input
ClickResetFallsThrough ==
    /\ solved
    /\ gridInput' = <<>>
    /\ LET g == parseGrid(<<>>)
           found == findWords(g)
       IN  /\ grid' = g
           /\ visualGrid' = renderGrid(g)
           /\ words' = found.words
           /\ result' = found.result
           /\ solutions' = displayResults(found.result)
    /\ solved' = TRUE
    /\ buttonLabel' = "New Puzzle"
    /\ lastClick' = "search"
    /\ UNCHANGED <<firstResult, stack, cell, pc, discovered>>
    /\ UNCHANGED <<lexVars, loadVars>>

\* solve(), lines 60-67: the page is solved, the click resets it
ClickReset ==
    /\ solved
    /\ solved' = FALSE
    /\ gridInput' = <<>>
    /\ visualGrid' = <<>>
    /\ solutions' = <<>>
    /\ buttonLabel' = "Solve"
    /\ lastClick' = "reset"
    /\ UNCHANGED firstResult
    /\ UNCHANGED <<lexVars, loadVars, searchVars>>

\* solve(), lines 60 and 69-72: the alert
ClickRefused ==
    /\ ~solved
    /\ ~Ready
    /\ lastClick' = "alert"
    /\ UNCHANGED <<solved, buttonLabel, gridInput, visualGrid, solutions,
                   firstResult>>
    /\ UNCHANGED <<lexVars, loadVars, searchVars>>

\* solve(), lines 60, 69 and 74-78; a throw in findWords would leave the
\* page as renderGrid made it
ClickSolve ==
    /\ ~solved
    /\ Ready
    /\ LET g == parseGrid(gridInput)
           found == findWords(g)
       IN  /\ grid' = g
           /\ visualGrid' = renderGrid(g)
           /\ solved' = TRUE
           /\ words' = found.words
           /\ result' = found.result
           /\ IF found.threw
              THEN UNCHANGED <<buttonLabel, solutions, firstResult>>
              ELSE /\ buttonLabel' = "New Puzzle"
                   /\ solutions' = displayResults(found.result)
                   /\ firstResult' =
                          IF ~firstResult[gridInput].seen
                          THEN [firstResult EXCEPT ![gridInput] =
                                   [seen |-> TRUE, result |-> found.result]]
                          ELSE firstResult
    /\ lastClick' = "search"
    /\ UNCHANGED <<gridInput, stack, cell, pc, discovered>>
    /\ UNCHANGED <<lexVars, loadVars>>

Next ==
    \/ FetchResolved
    \/ FetchRejected
    \/ ReadChunk
    \/ ReadRejected
    \/ ReadDone
    \/ EditInput
    \/ ClickReset
    \/ ClickRefused
    \/ ClickSolve

Spec == Init /\ [][Next]_vars

---------------------------------------------------------------------------
(* The build on its own: any decoded text within the bound                 *)

TextChars == {"a", "B", Space, Newline}

Texts == UNION {[1..n -> TextChars] : n \in 0..MaxTextLen}

LexiconInit ==
    /\ dictionary = {}
    /\ prefixDictionary = {}
    /\ dictionaryLoaded = FALSE
    /\ initPc = "read"
    /\ text \in Texts
    /\ reads = 1
    /\ PageIdle
    /\ SearchIdle

SpecLexicon == LexiconInit /\ [][ReadDone]_vars

---------------------------------------------------------------------------
(* The search on its own: any grid within the bounds, a built lexicon      *)

GridChars == {"a", "A", "b", Space}

RowsUpTo(n) == UNION {[1..k -> GridChars] : k \in 0..n}

\* the grids of at most r rows and c cells in all, rows of any lengths
RECURSIVE GridsWithin(_, _)
GridsWithin(r, c) ==
    IF r = 0 THEN {<<>>}
    ELSE {<<>>} \cup
         UNION {{<<row>> \o g : g \in GridsWithin(r - 1, c - Len(row))} :
                   row \in RowsUpTo(c)}

Grids == GridsWithin(MaxRows, MaxCells)

\* word lists as the decoded text of words.txt
SearchTexts ==
    { <<"a", Newline, "a", "b", Newline, "a", "b", "a">>,
      <<Space, "A", "A", Space, Newline, "a", "b", Newline, "b", Newline,
        Newline, "B", "a", "a">> }

SearchInit ==
    /\ text \in SearchTexts
    /\ initPc = "done"
    /\ reads = 1
    /\ dictionary = BuildDictionaries(text).dictionary
    /\ prefixDictionary = BuildDictionaries(text).prefixDictionary
    /\ dictionaryLoaded = TRUE
    /\ PageIdle
    /\ grid \in Grids
    /\ words = <<>>
    /\ stack = <<>>
    /\ cell = 1
    /\ result = <<>>
    /\ discovered = <<>>
    /\ pc = "call"

SearchNext ==
    \/ FindWordsCall
    \/ SkipCell
    \/ StartDfs
    \/ DfsPrune
    \/ DfsEnter
    \/ DfsRecurse
    \/ DfsReturn
    \/ FindWordsReturn

SpecSearch == SearchInit /\ [][SearchNext]_vars

\* the stepped search ends with the Map and the array of the one-call
\* rendering of findWords
SearchAgreesWithCall ==
    pc = "done" =>
        /\ ~findWords(grid).threw
        /\ words = findWords(grid).words
        /\ result = findWords(grid).result

---------------------------------------------------------------------------
(* What the claims speak of, stated without the search                     *)

Abs(n) == IF n < 0 THEN -n ELSE n

\* two distinct cells that share an edge or a corner
Adjacent(p, q) ==
    /\ p # q
    /\ Abs(p.x - q.x) <= 1
    /\ Abs(p.y - q.y) <= 1

\* the cells of the grid that hold a letter
UsableCells(g) ==
    {[x |-> i - 1, y |-> j - 1] :
        <<i, j>> \in {ij \in (1..Len(g)) \X (1..MaxCells + 1) :
                         /\ ij[2] <= Len(g[ij[1]])
                         /\ g[ij[1]][ij[2]] \in Letters}}

Range(f) == {f[i] : i \in DOMAIN f}

NoRepeat(p) == \A i, j \in DOMAIN p : i # j => p[i] # p[j]

\* the simple paths of n cells, from those of n - 1 cells
RECURSIVE SimplePathsOfLen(_, _)
SimplePathsOfLen(g, n) ==
    IF n = 1 THEN {<<c>> : c \in UsableCells(g)}
    ELSE UNION {{Append(p, c) :
                    c \in {u \in UsableCells(g) :
                              Adjacent(p[Len(p)], u) /\ u \notin Range(p)}} :
                  p \in SimplePathsOfLen(g, n - 1)}

SimplePaths(g) ==
    UNION {SimplePathsOfLen(g, n) : n \in 1..Cardinality(UsableCells(g))}

\* the letters along a path, in the case the grid has them
Spell(g, p) == [i \in 1..Len(p) |-> g[p[i].x + 1][p[i].y + 1]]

\* a path that spells its word in the grid
ValidEntry(g, e) ==
    /\ Len(e.path) = Len(e.key)
    /\ Range(e.path) \subseteq UsableCells(g)
    /\ toLowerCase(Spell(g, e.path)) = toLowerCase(e.key)
    /\ toLowerCase(e.key) \in dictionary
    /\ NoRepeat(e.path)
    /\ \A i \in 1..(Len(e.path) - 1) : Adjacent(e.path[i], e.path[i + 1])

Keys(m) == {m[i].key : i \in DOMAIN m}

DistinctKeys(m) == \A i, j \in DOMAIN m : i # j => m[i].key # m[j].key

\* the discoveries of a word, as indexes of the log, in traversal order
DiscoveriesOf(key) == {i \in DOMAIN discovered : discovered[i].key = key}

Min(S) == CHOOSE n \in S : \A m \in S : n <= m
Max(S) == CHOOSE n \in S : \A m \in S : n >= m

\* UTF-16 code unit of a letter
CodeUnit(c) ==
    CASE c = "A" -> 65
      [] c = "B" -> 66
      [] c = "a" -> 97
      [] c = "b" -> 98

\* a < b in code-unit order
RECURSIVE OrdinalLess(_, _)
OrdinalLess(a, b) ==
    IF b = <<>> THEN FALSE
    ELSE IF a = <<>> THEN TRUE
    ELSE IF CodeUnit(Head(a)) # CodeUnit(Head(b))
         THEN CodeUnit(Head(a)) < CodeUnit(Head(b))
    ELSE OrdinalLess(Tail(a), Tail(b))

SingleCase(g) ==
    \/ \A c \in UsableCells(g) : CellAt(g, c.x, c.y) \in {"a", "b"}
    \/ \A c \in UsableCells(g) : CellAt(g, c.x, c.y) \in {"A", "B"}

---------------------------------------------------------------------------
(* C1                                                                      *)

---------------------------------------------------------------------------
(* C2                                                                      *)

\* the entries of the result whose word is w up to case
EntriesFor(w) ==
    {i \in DOMAIN result : toLowerCase(result[i].key) = toLowerCase(w)}

\* C2 as stated: every dictionary word some simple path spells appears
\* exactly once in the result, words compared case-insensitively, and no
\* key occurs twice.
C2_ExactlyOncePerWord ==
    pc = "done" =>
        /\ DistinctKeys(result)
        /\ \A p \in SimplePaths(grid) :
               toLowerCase(Spell(grid, p)) \in dictionary =>
                   Cardinality(EntriesFor(Spell(grid, p))) = 1

\* C2 amended: every dictionary word some simple path spells appears in
\* the result, once for each distinct spelling in the grid's own case
\* (so exactly once when the usable cells are all of one case); no key
\* occurs twice, keys compared case-sensitively; pruning loses no word.
C2_OncePerSpelling ==
    pc = "done" =>
        /\ DistinctKeys(result)
        /\ \A p \in SimplePaths(grid) :
               toLowerCase(Spell(grid, p)) \in dictionary =>
                   /\ Spell(grid, p) \in Keys(result)
                   /\ Cardinality(EntriesFor(Spell(grid, p))) =
                          Cardinality({Spell(grid, q) :
                              q \in {r \in SimplePaths(grid) :
                                        toLowerCase(Spell(grid, r)) =
                                            toLowerCase(Spell(grid, p))}})
                   /\ SingleCase(grid) =>
                          Cardinality(EntriesFor(Spell(grid, p))) = 1

\* a finished run that found a three-letter word whose two-letter prefix
\* is no word, on a grid with a blank cell or rows of unequal length
C2_Witness ==
    /\ pc = "done"
    /\ \E i \in DOMAIN result :
           /\ Len(result[i].key) = 3
           /\ SubSeq(toLowerCase(result[i].key), 1, 2) \notin dictionary
    /\ Len(grid) = 2
    /\ Len(grid[1]) # Len(grid[2])

---------------------------------------------------------------------------
(* C3                                                                      *)

\* C3: every (word, path) stored or returned is a path of the grid of the
\* word's length, without a repeated cell, each step to one of the eight
\* neighbours, whose letters spell the word up to case, the lowercased
\* word being in the dictionary.
C3_Soundness ==
    /\ \A i \in DOMAIN words : ValidEntry(grid, words[i])
    /\ \A i \in DOMAIN result : ValidEntry(grid, result[i])

\* a finished run returning a word of three cells with a diagonal step
C3_Witness ==
    /\ pc = "done"
    /\ \E i \in DOMAIN result :
           /\ Len(result[i].path) = 3
           /\ \E k \in 1..2 :
                  /\ result[i].path[k].x # result[i].path[k + 1].x
                  /\ result[i].path[k].y # result[i].path[k + 1].y

---------------------------------------------------------------------------
(* C4                                                                      *)

\* C4 as stated: the result is sorted by length, then by code-unit order
\* of the stored word, on every grid.
C4_OrdinalOrder ==
    pc = "done" =>
        \A i, j \in DOMAIN result :
            i < j =>
                \/ Len(result[i].key) < Len(result[j].key)
                \/ /\ Len(result[i].key) = Len(result[j].key)
                   /\ OrdinalLess(result[i].key, result[j].key)

\* C4 amended: the result is sorted by length, then by localeCompare of
\* the stored word: alphabetical whatever the case, a lower-case letter
\* before its upper-case one where the words differ by case only; this is
\* code-unit order when the grid's letters are all of one case.
C4_LocaleOrder ==
    pc = "done" =>
        /\ \A i, j \in DOMAIN result :
               i < j =>
                   \/ Len(result[i].key) < Len(result[j].key)
                   \/ /\ Len(result[i].key) = Len(result[j].key)
                      /\ localeCompare(result[i].key, result[j].key) < 0
        /\ SingleCase(grid) =>
               \A i, j \in DOMAIN result :
                   i < j /\ Len(result[i].key) = Len(result[j].key) =>
                       OrdinalLess(result[i].key, result[j].key)
        /\ Keys(result) = Keys(words)

\* a finished run on a mixed-case grid whose result holds a longer word
\* that is alphabetically before a shorter one, and two words of one
\* length in alphabetical order against their code units ("aA", "Ab")
C4_Witness ==
    /\ pc = "done"
    /\ ~SingleCase(grid)
    /\ \E i, j \in DOMAIN result :
           /\ Len(result[i].key) < Len(result[j].key)
           /\ localeCompare(result[j].key, result[i].key) < 0
    /\ \E i, j \in DOMAIN result :
           /\ i < j
           /\ Len(result[i].key) = Len(result[j].key)
           /\ WeightCompare(1, result[i].key, result[j].key) < 0
           /\ OrdinalLess(result[j].key, result[i].key)

---------------------------------------------------------------------------
(* C7                                                                      *)

\* where the run is: the loops' cell, then the loop position of every
\* call in progress, outermost first
Progress ==
    <<(CASE pc = "call" -> 0 [] pc = "cells" -> 1 [] OTHER -> 2), cell>>
        \o [i \in DOMAIN stack |-> stack[i].d]

\* s before t in dictionary order, a sequence before its extensions
RECURSIVE LexLess(_, _)
LexLess(s, t) ==
    IF t = <<>> THEN FALSE
    ELSE IF s = <<>> THEN TRUE
    ELSE IF Head(s) # Head(t) THEN Head(s) < Head(t)
    ELSE LexLess(Tail(s), Tail(t))

\* the nesting of dfs calls never exceeds the usable cells; the k-th call
\* of a chain has visited exactly the k distinct cells of its path
DepthBounded ==
    /\ Len(stack) <= Cardinality(UsableCells(grid))
    /\ \A k \in DOMAIN stack :
           /\ Len(stack[k].path) = k
           /\ Cardinality(stack[k].visited) = k
           /\ stack[k].visited =
                  {CoordKey(c.x, c.y) : c \in Range(stack[k].path)}
           /\ k > 1 => CoordKey(stack[k].x, stack[k].y)
                           \notin stack[k - 1].visited

\* C7: findWords terminates: every step moves the run forward in a
\* bounded order (the start cell, then the loop positions of the nested
\* calls), and the nesting of dfs calls is at most the number of usable
\* cells, each call adding a cell its caller had not visited.
C7_Termination ==
    [][LexLess(Progress, Progress') /\ DepthBounded']_vars

\* a chain of calls as deep as the grid has usable cells, three of them
C7_Witness ==
    /\ Len(stack) = 3
    /\ Cardinality(UsableCells(grid)) = 3
    /\ Cardinality({stack[k].currentWord : k \in DOMAIN stack}) = 3

---------------------------------------------------------------------------
(* C8                                                                      *)

\* C8: no search starts at a blank cell, no path in progress, stored or
\* returned holds a blank cell or a coordinate outside its row or the
\* grid, no read fails, and a grid without a usable cell gives the empty
\* result.
C8_BlankAndOutOfRange ==
    /\ pc # "TypeError"
    /\ \A k \in DOMAIN stack :
           /\ Range(stack[k].path) \subseteq UsableCells(grid)
           /\ [x |-> stack[k].x, y |-> stack[k].y] \in UsableCells(grid)
    /\ \A i \in DOMAIN words :
           Range(words[i].path) \subseteq UsableCells(grid)
    /\ \A i \in DOMAIN result :
           Range(result[i].path) \subseteq UsableCells(grid)
    /\ (pc = "done" /\ UsableCells(grid) = {}) => result = <<>>

\* a finished run on a grid of unequal rows with a blank cell that still
\* found a word
C8_Witness ==
    /\ pc = "done"
    /\ Len(grid) = 2
    /\ Len(grid[1]) # Len(grid[2])
    /\ \E i \in DOMAIN grid : \E j \in DOMAIN grid[i] : grid[i][j] = Space
    /\ result # <<>>

\* a finished run on a grid with rows but no usable cell
C8_WitnessEmpty ==
    /\ pc = "done"
    /\ Len(grid) = 2
    /\ UsableCells(grid) = {}
    /\ result = <<>>

---------------------------------------------------------------------------
(* C6                                                                      *)

AllSpaces(s) == \A i \in DOMAIN s : s[i] = Space

\* w is l without its leading and trailing spaces
IsTrimOf(w, l) ==
    \E i, j \in 0..Len(l) :
        /\ i + Len(w) + j = Len(l)
        /\ AllSpaces(SubSeq(l, 1, i))
        /\ SubSeq(l, i + 1, i + Len(w)) = w
        /\ AllSpaces(SubSeq(l, i + Len(w) + 1, Len(l)))
        /\ w # <<>> => (w[1] # Space /\ w[Len(w)] # Space)

Pieces(l) == {SubSeq(l, i, j) : i \in 1..(Len(l) + 1), j \in 0..Len(l)}

\* the raw lines of the text
RawLines == Range(split(text))

\* the trimmed, lowercased, non-empty lines
NormalizedLines ==
    {toLowerCase(w) :
        w \in UNION {{v \in Pieces(l) : v # <<>> /\ IsTrimOf(v, l)} :
                        l \in RawLines}}

\* C6: after the build the word set is exactly the trimmed, lowercased
\* non-empty lines, it is a subset of the prefix set, every prefix of
\* length 1..len(w) of every word w is in the prefix set, and the prefix
\* set holds nothing else.
C6_LexiconInvariant ==
    dictionaryLoaded =>
        /\ dictionary = NormalizedLines
        /\ dictionary \subseteq prefixDictionary
        /\ \A w \in dictionary : \A k \in 1..Len(w) :
               SubSeq(w, 1, k) \in prefixDictionary
        /\ \A q \in prefixDictionary :
               \E w \in dictionary : \E k \in 1..Len(w) :
                   q = SubSeq(w, 1, k)

\* built from lines with an upper-case letter and surrounding spaces, an
\* empty line, and a word that is a prefix of another (the "do" of "dog")
C6_Witness ==
    /\ dictionaryLoaded
    /\ <<"a">> \in dictionary
    /\ <<"a", "b">> \in dictionary
    /\ <<>> \in RawLines
    /\ \E l \in RawLines : l # <<>> /\ l[1] = Space
    /\ \E l \in RawLines : l # <<>> /\ l[Len(l)] = Space

---------------------------------------------------------------------------
(* C5                                                                      *)

\* C5: a search has run only with dictionaryLoaded true; the flag is true
\* only once init() has built both sets completely from the whole text,
\* and until then the sets are empty; before that the clicks are refused
\* and the grid view, the results, the label and the solved state stay
\* as they were; when the word list is never obtained every click stays
\* refused.
C5_ReadinessGating ==
    /\ lastClick = "search" => dictionaryLoaded
    /\ dictionaryLoaded =>
           /\ initPc = "done"
           /\ dictionary = BuildDictionaries(text).dictionary
           /\ prefixDictionary = BuildDictionaries(text).prefixDictionary
    /\ ~dictionaryLoaded =>
           /\ dictionary = {} /\ prefixDictionary = {}
           /\ lastClick \in {"none", "alert"}
           /\ ~solved /\ buttonLabel = "Solve"
           /\ visualGrid = <<>> /\ solutions = <<>>
           /\ \A t \in GridTexts : ~firstResult[t].seen
    /\ initPc = "failed" => ~dictionaryLoaded

\* a click refused while the text is half read, with a grid typed in
C5_Witness ==
    /\ initPc = "read"
    /\ reads = 1
    /\ lastClick = "alert"
    /\ gridInput # <<>>
    /\ ~dictionaryLoaded

\* a click refused after the load failed
C5_WitnessFailed ==
    /\ initPc = "failed"
    /\ lastClick = "alert"
    /\ gridInput # <<>>

---------------------------------------------------------------------------
(* C9                                                                      *)

\* C9: every solve of an input shows what the first solve of that input
\* returned, whatever was solved in between; no step taken once the
\* dictionary is loaded changes the word set, the prefix set or the flag,
\* and a search leaves its grid as parsed.
C9_Determinism ==
    [][/\ dictionaryLoaded => UNCHANGED lexVars
       /\ (~solved /\ solved') =>
              /\ firstResult'[gridInput].seen
              /\ result' = firstResult'[gridInput].result
              /\ solutions' = displayResults(firstResult'[gridInput].result)
              /\ grid' = parseGrid(gridInput)
              /\ \A t \in GridTexts :
                     firstResult[t].seen =>
                         firstResult'[t] = firstResult[t]]_vars

\* an input solved for the second time after another input was solved,
\* with results to show in both
C9_Witness ==
    /\ solved
    /\ lastClick = "search"
    /\ result # <<>>
    /\ words # <<>>
    /\ \E t \in GridTexts :
           /\ t # gridInput
           /\ firstResult[t].seen
           /\ firstResult[t].result # <<>>
           /\ firstResult[t].result # result

---------------------------------------------------------------------------
(* C10                                                                     *)

\* C10: the page is solved only with the dictionary loaded, and exactly
\* when the button reads New Puzzle; a click on the solved page only
\* resets it, without a search; a click on the unsolved page with the
\* dictionary loaded runs the search once and makes the page solved.
C10_SolveResetToggle ==
    [][/\ solved' => dictionaryLoaded'
       /\ solved' <=> buttonLabel' = "New Puzzle"
       /\ ~solved' <=> buttonLabel' = "Solve"
       /\ solved =>
              /\ ~solved'
              /\ lastClick' = "reset"
              /\ gridInput' = <<>> /\ visualGrid' = <<>>
              /\ solutions' = <<>>
              /\ UNCHANGED <<lexVars, searchVars>>
       /\ (~solved /\ dictionaryLoaded /\ lastClick' # lastClick) =>
              /\ solved'
              /\ lastClick' = "search"
              /\ visualGrid' = renderGrid(parseGrid(gridInput))
              /\ solutions' =
                     displayResults(findWords(parseGrid(gridInput)).result)
       /\ (~solved /\ solved') => lastClick' = "search"]_vars

\* the page solved again after a reset, with results shown
C10_Witness ==
    /\ solved
    /\ buttonLabel = "New Puzzle"
    /\ solutions # <<>>
    /\ Cardinality({t \in GridTexts : firstResult[t].seen}) >= 2

=============================================================================
